---- MODULE Spec2Model ----
(***************************************************************************)
(* A state-machine model of the horse-race prediction pipeline:            *)
(*   src/src/model.py               train_and_evaluate, softmax_stable     *)
(*   src/src/features.py            engineer_features and its transforms   *)
(*   src/src/processing/combine.py  create_edge_backtest_file              *)
(*   src/run_all.py                 the notebook driver                    *)
(* Each program has its own variables and its own specification; the       *)
(* variables of the other programs stay at their idle values.              *)
(*                                                                         *)
(* Floating-point values are records: Num(v) is a number, NaN the missing  *)
(* marker.  Raw scores are whole numbers; probabilities are fixed-point    *)
(* numbers in units of 1/Scale.                                            *)
(***************************************************************************)
EXTENDS Integers, Sequences, FiniteSets, TLC

VARIABLES
  \* ---- train_and_evaluate (src/src/model.py)
  race_ids,          \* the race_ids argument: Race_ID of each input row
  num_folds,         \* the num_folds argument
  group_to_fold,     \* GroupKFold's assignment of race groups to folds
  fold,              \* the loop counter of the fold loop (0-based)
  oof_scores,        \* oof_scores: one float per input row, NaN until written
  models,            \* one record per finished fold: what fit/predict saw
  probs,             \* full_df["Predicted_Probability"], the returned vector
  tpc,               \* where train_and_evaluate is
  \* ---- engineer_features (src/src/features.py)
  df0,               \* the table engineer_features was called with
  df,                \* the table as it is now: column name -> column
  fpc,               \* the transform that runs next, "returned" or "raised"
  \* ---- create_edge_backtest_file (src/src/processing/combine.py)
  preds,             \* the rows read from pred_path
  market,            \* the rows read from market_path
  labels,            \* the rows read from labels_path (Race_ID, Horse, Position)
  edf,               \* df: the merged table, a sequence of rows
  epc,               \* where create_edge_backtest_file is
  \* ---- the driver (src/run_all.py)
  nb,                \* the place in notebooks of the notebook that runs next
  executed,          \* the notebooks run_notebook was called with, in order
  exit_code,         \* the code the script exited with, -1 while it has not
  completed,         \* whether the completion message was printed
  dpc                \* where the driver is

trainVars == <<race_ids, num_folds, group_to_fold, fold, oof_scores, models, probs, tpc>>
featVars == <<df0, df, fpc>>
edgeVars == <<preds, market, labels, edf, epc>>
driverVars == <<nb, executed, exit_code, completed, dpc>>

vars == <<trainVars, featVars, edgeVars, driverVars>>

-----------------------------------------------------------------------------
(* Bounds of the model *)
MaxRows == 4
MaxRaces == 3
NFeatRows == 10
MaxDistLen == 3
MaxPreds == 2
MaxMarket == 2
MaxLabels == 2
MaxReturnCode == 15

(* Fixed-point resolution of the probabilities *)
Scale == 10 ^ 4

-----------------------------------------------------------------------------
(* Floats *)
Num(v) == [kind |-> "num", v |-> v]
NaN == [kind |-> "nan", v |-> 0]
\* a string cell (its characters), a categorical label, and a finite float
\* whose value is not computed here (it needs a square root or a logarithm)
Str(chars) == [kind |-> "str", v |-> chars]
Cat(label) == [kind |-> "cat", v |-> label]
Float == [kind |-> "float", v |-> 0]
\* plus and minus infinity
Inf(sign) == [kind |-> "inf", v |-> sign]
IsNum(x) == x.kind = "num"

Min(S) == CHOOSE m \in S : \A x \in S : m <= x
Max(S) == CHOOSE m \in S : \A x \in S : x <= m

RECURSIVE SortedSeq(_)
SortedSeq(S) == IF S = {} THEN <<>> ELSE <<Min(S)>> \o SortedSeq(S \ {Min(S)})

RECURSIVE SumSeq(_)
SumSeq(s) == IF s = <<>> THEN 0 ELSE Head(s) + SumSeq(Tail(s))

Range(s) == {s[i] : i \in DOMAIN s}

\* s.iloc[idx]: the entries of s at the positions idx, in the order of idx
Take(s, idx) == [k \in 1..Len(idx) |-> s[idx[k]]]

-----------------------------------------------------------------------------
(* softmax_stable *)

\* np.exp on a non-positive whole argument, in units of 1/Scale; below the
\* resolution the result is 0 (as float64 underflows to 0 far below).
ExpFix(d) ==
  CASE d = 0 -> Scale
    [] d = -1 -> 3679
    [] d = -2 -> 1353
    [] d = -3 -> 498
    [] d = -4 -> 183
    [] d = -5 -> 67
    [] d = -6 -> 25
    [] d = -7 -> 9
    [] d = -8 -> 3
    [] d = -9 -> 1
    [] OTHER -> 0

\* A softmax that does not subtract the maximum: np.exp overflows to inf
\* above 709, so that the sum is inf, inf / inf is NaN and a finite value
\* over inf is 0.
SoftmaxNaive(x) ==
  LET nums == {i \in DOMAIN x : IsNum(x[i])}
      over == {i \in nums : x[i].v > 709}
      e(v) == CASE v <= 0 -> ExpFix(v) [] v = 1 -> 27183 [] v = 2 -> 73891 [] v = 3 -> 200855
      exp_x == [i \in DOMAIN x |-> IF i \in nums \ over THEN e(x[i].v) ELSE 0]
      total == SumSeq(exp_x)
  IN [i \in DOMAIN x |->
        IF i \notin nums \/ i \in over THEN NaN
        ELSE IF over # {} THEN Num(0)
        ELSE Num((exp_x[i] * Scale) \div total)]

\* x is a pandas Series (one race group): np.max and np.sum skip NaN
softmax_stable(x) ==
  LET nums == {i \in DOMAIN x : IsNum(x[i])}
  IN IF nums = {} THEN [i \in DOMAIN x |-> NaN]
     ELSE LET mx == Max({x[i].v : i \in nums})
              exp_x == [i \in DOMAIN x |-> IF i \in nums THEN ExpFix(x[i].v - mx) ELSE 0]
              total == SumSeq(exp_x)
          IN [i \in DOMAIN x |->
                IF i \in nums THEN Num((exp_x[i] * Scale) \div total) ELSE NaN]

\* The rows of race r, ascending
RowsOf(ids, r) == SortedSeq({i \in DOMAIN ids : ids[i] = r})

\* Position of row i in the index sequence idx
PosIn(idx, i) == CHOOSE k \in DOMAIN idx : idx[k] = i

\* df.groupby("Race_ID")["score"].transform(softmax_stable)
GroupSoftmax(ids, score) ==
  [i \in DOMAIN score |->
     LET rows == RowsOf(ids, ids[i])
     IN softmax_stable(Take(score, rows))[PosIn(rows, i)]]

-----------------------------------------------------------------------------
(* Tables: a table is a function from column names to columns, and a column *)
(* is a sequence of cells, one per row.                                     *)

Columns(t) == DOMAIN t
NRows(t) == Len(t[CHOOSE c \in DOMAIN t : TRUE])
Rows(t) == 1..NRows(t)

\* df[c] = col
SetCol(t, c, col) == [k \in DOMAIN t \cup {c} |-> IF k = c THEN col ELSE t[k]]

\* The rows of the group of row i under the key column
GroupOf(key, i) == {j \in DOMAIN key : key[j] = key[i]}
SumOver(col, S) == SumSeq([k \in 1..Cardinality(S) |-> col[SortedSeq(S)[k]].v])

\* groupby(key)[col].transform("mean"), in units of 1/Scale
GroupMean(key, col, i) == (SumOver(col, GroupOf(key, i)) * Scale) \div Cardinality(GroupOf(key, i))

\* x.std() of a group: the sample deviation, missing for a group of one row
GroupStd(key, i) == IF Cardinality(GroupOf(key, i)) < 2 THEN NaN ELSE Float

\* groupby(key)[col].rank(): method "average", in units of 1/Scale
GroupRank(key, col, i, ascending) ==
  LET G == GroupOf(key, i)
      before == Cardinality({j \in G : IF ascending THEN col[j].v < col[i].v
                                                     ELSE col[j].v > col[i].v})
      equal == Cardinality({j \in G : col[j].v = col[i].v})
  IN Num(before * Scale + ((equal + 1) * Scale) \div 2)

\* pd.cut with right-closed bins; with topInf the last edge is np.inf
pd_cut_left(x, edges, lbls, topInf) ==
  IF ~IsNum(x) THEN NaN
  ELSE LET k == Cardinality({e \in DOMAIN edges : edges[e] <= x.v})
       IN IF k = 0 THEN NaN
          ELSE IF k < Len(edges) \/ topInf THEN Cat(lbls[k])
          ELSE NaN

pd_cut(x, edges, lbls, topInf) ==
  IF ~IsNum(x) THEN NaN
  ELSE LET k == Cardinality({e \in DOMAIN edges : edges[e] < x.v})
       IN IF k = 0 THEN NaN
          ELSE IF k < Len(edges) \/ topInf THEN Cat(lbls[k])
          ELSE NaN

-----------------------------------------------------------------------------
(* The transforms of features.py.  Whole numbers are Num(n); means, ratios *)
(* and ranks are Num in units of 1/Scale.                                   *)

add_race_relative_features(t) ==
  LET r == t["Race_ID"]
      x == t["Speed_PreviousRun"]
      t1 == SetCol(t, "rel_Speed_PreviousRun",
                   [i \in Rows(t) |-> Num(x[i].v * Scale - GroupMean(r, x, i))])
      t2 == SetCol(t1, "rank_Speed_PreviousRun",
                   [i \in Rows(t) |-> GroupRank(r, x, i, FALSE)])
      t3 == SetCol(t2, "z_Speed_PreviousRun", [i \in Rows(t) |-> GroupStd(r, i)])
  IN SetCol(t3, "Field_Size", [i \in Rows(t) |-> Num(Cardinality(GroupOf(r, i)))])

add_interaction_features(t) ==
  LET t1 == SetCol(t, "JockeyTrainerCombo",
                   [i \in Rows(t) |-> Num(t["JockeyRating"][i].v * t["TrainerRating"][i].v)])
  IN SetCol(t1, "SpeedTrainerInt",
            [i \in Rows(t) |-> Num(t["Speed_PreviousRun"][i].v * t["TrainerRating"][i].v)])

RecentRunBins == <<-1, 7, 30, 90, 9999>>
RecentRunLabels == <<"<7d", "8-30d", "31-90d", "90d+">>

add_form_features(t) ==
  LET t1 == SetCol(t, "RecentRun",
                   [i \in Rows(t) |->
                      pd_cut(t["daysSinceLastRun"][i], RecentRunBins, RecentRunLabels, FALSE)])
  IN IF "PastWins" \in Columns(t)
     THEN SetCol(t1, "Ever_Won",
                 [i \in Rows(t) |-> Num(IF t["PastWins"][i].v > 0 THEN 1 ELSE 0)])
     ELSE t1

add_market_features(t) ==
  LET r == t["Race_ID"]
      o == t["Market_Odds"]
      t1 == SetCol(t, "log_MarketOdds", [i \in Rows(t) |-> Float])
      t2 == SetCol(t1, "MarketRank", [i \in Rows(t) |-> GroupRank(r, o, i, TRUE)])
      t3 == SetCol(t2, "Market_Prob", [i \in Rows(t) |-> Num(Scale \div o[i].v)])
  IN SetCol(t3, "Market_Prob_Z", [i \in Rows(t) |-> GroupStd(r, i)])

add_form_aggregates(t) ==
  LET t1 == SetCol(t, "SpeedAvg2",
                   [i \in Rows(t) |->
                      Num(((t["Speed_PreviousRun"][i].v + t["Speed_2ndPreviousRun"][i].v) * Scale) \div 2)])
  IN SetCol(t1, "OddsAvg2",
            [i \in Rows(t) |->
               Num(((t["MarketOdds_PreviousRun"][i].v + t["MarketOdds_2ndPreviousRun"][i].v) * Scale) \div 2)])

add_race_context_features(t) ==
  LET r == t["Race_ID"]
      o == t["Market_Odds"]
      t1 == SetCol(t, "RaceMeanOdds", [i \in Rows(t) |-> Num(GroupMean(r, o, i))])
      t2 == SetCol(t1, "RaceStdOdds", [i \in Rows(t) |-> GroupStd(r, i)])
  IN SetCol(t2, "OddsToMeanRatio",
            [i \in Rows(t) |->
               Num((o[i].v * Cardinality(GroupOf(r, i)) * Scale) \div SumOver(o, GroupOf(r, i)))])

add_advanced_interactions(t) ==
  LET t1 == SetCol(t, "TrainerFormCombo",
                   [i \in Rows(t) |-> Num(t["TrainerRating"][i].v * t["Speed_PreviousRun"][i].v)])
  IN SetCol(t1, "TrainerRecencyCombo",
            [i \in Rows(t) |->
               Num((t["TrainerRating"][i].v * Scale) \div (t["daysSinceLastRun"][i].v + 1))])

\* rolling(window=50, min_periods=10)
Window == 50
MinPeriods == 10

\* groupby(col)["Winner"].rolling(window, min_periods).mean() at row i: the
\* mean of Winner over the last Window rows of the entity up to and
\* including row i, in units of 1/Scale; missing below MinPeriods rows.
RollingMean(key, winner, i) ==
  LET upto == SortedSeq({j \in GroupOf(key, i) : j <= i})
      n == Len(upto)
      win == SubSeq(upto, IF n > Window THEN n - Window + 1 ELSE 1, n)
  IN IF Len(win) < MinPeriods THEN NaN
     ELSE Num((SumSeq([k \in 1..Len(win) |-> winner[win[k]].v]) * Scale) \div Len(win))

\* df.merge(rolling, on=["level_1", col], how="left"): rolling holds, for
\* every row j, the key (level_1 = j's index label j - 1, col = key[j]) and
\* the rolling value of row j; the keys are unique, so every left row is
\* kept once, in order, with the matched value or a missing one.
MergeRolling(t, col) ==
  LET rolling == [j \in Rows(t) |-> RollingMean(t[col], t["Winner"], j)]
      match(i) == {j \in Rows(t) : Num(j - 1) = t["level_1"][i] /\ t[col][j] = t[col][i]}
  IN SetCol(t, col \o "_WinRate50",
            [i \in Rows(t) |-> IF match(i) = {} THEN NaN
                               ELSE rolling[CHOOSE j \in match(i) : TRUE]])

\* One pass of the loop of add_rolling_win_rates
RollingStep(t, col) ==
  IF col \in Columns(t) /\ "Winner" \in Columns(t) THEN MergeRolling(t, col) ELSE t

\* The merge raises KeyError when df holds no level_1 key (neither a column
\* nor an index level of that name)
RollingRaises(t) ==
  /\ "Winner" \in Columns(t)
  /\ "level_1" \notin Columns(t)
  /\ \E col \in {"JockeyID", "TrainerID"} : col \in Columns(t)

add_rolling_win_rates(t) == RollingStep(RollingStep(t, "JockeyID"), "TrainerID")

Digits == {"0", "1", "2", "3", "4", "5", "6", "7", "8", "9"}
DigitVal(c) ==
  CASE c = "0" -> 0 [] c = "1" -> 1 [] c = "2" -> 2 [] c = "3" -> 3 [] c = "4" -> 4
    [] c = "5" -> 5 [] c = "6" -> 6 [] c = "7" -> 7 [] c = "8" -> 8 [] c = "9" -> 9

\* Distances are kept in units of 1/Milli
Milli == 10 ^ 3

\* The last position of the run of digits of s that starts at i (i - 1 when
\* there is none)
DigitRunEnd(s, i) ==
  LET ends == {j \in i..Len(s) : \A k \in i..j : s[k] \in Digits}
  IN IF ends = {} THEN i - 1 ELSE Max(ends)

RECURSIVE IntOf(_, _, _)
IntOf(s, a, b) == IF b < a THEN 0 ELSE IntOf(s, a, b - 1) * 10 + DigitVal(s[b])

\* str.extract(r"(\d+\.?\d*)")[0] then pd.to_numeric: the first run of
\* digits, with a point and the digits after it when they follow directly;
\* missing when s holds no digit.
ParseDistance(s) ==
  LET starts == {i \in DOMAIN s : s[i] \in Digits}
  IN IF starts = {} THEN NaN
     ELSE LET a == Min(starts)
              b == DigitRunEnd(s, a)
              hasPoint == b + 1 <= Len(s) /\ s[b + 1] = "."
              c == IF hasPoint THEN DigitRunEnd(s, b + 2) ELSE b + 1
              frac == IF hasPoint THEN SubSeq(s, b + 2, c) ELSE <<>>
              fracMilli == SumSeq([k \in 1..Len(frac) |->
                                     IF k <= 3 THEN DigitVal(frac[k]) * 10 ^ (3 - k) ELSE 0])
          IN Num(IntOf(s, a, b) * Milli + fracMilli)

DistanceBins == <<0, 1200 * Milli, 1600 * Milli, 2000 * Milli, 2400 * Milli, 3000 * Milli>>
DistanceLabels == <<"Sprint", "Mile", "Intermediate", "Classic", "Long", "Marathon">>

\* groupby(["HorseID", "Track"]).cumcount()
CumCount(t, i) ==
  Cardinality({j \in Rows(t) : j < i /\ t["HorseID"][j] = t["HorseID"][i]
                                      /\ t["Track"][j] = t["Track"][i]})

add_track_distance_features(t) ==
  LET t1 == IF "Track" \in Columns(t) /\ "HorseID" \in Columns(t)
            THEN SetCol(t, "Track_Experience", [i \in Rows(t) |-> Num(CumCount(t, i))])
            ELSE t
  IN IF "Distance" \in Columns(t1)
     THEN LET parsed == [i \in Rows(t) |-> ParseDistance(t["Distance"][i].v)]
              t2 == SetCol(t1, "Distance", parsed)
          IN SetCol(t2, "Distance_Bucket",
                    [i \in Rows(t) |-> pd_cut(parsed[i], DistanceBins, DistanceLabels, TRUE)])
     ELSE t1

-----------------------------------------------------------------------------
(* GroupKFold(n_splits).split(X, y, groups) *)

Groups(ids) == Range(ids)
GroupCount(ids, r) == Cardinality({i \in DOMAIN ids : ids[i] = r})

\* The orders in which the greedy assignment may visit the groups: any order
\* of non-increasing group size (argsort's order among ties is unspecified).
VisitOrders(ids) ==
  LET G == Groups(ids)
      n == Cardinality(G)
  IN {o \in [1..n -> G] :
        /\ \A a, b \in 1..n : a # b => o[a] # o[b]
        /\ \A a \in 1..(n - 1) : GroupCount(ids, o[a]) >= GroupCount(ids, o[a + 1])}

\* np.argmin: the first fold of least load
Lightest(load) == Min({f \in DOMAIN load : \A g \in DOMAIN load : load[f] <= load[g]})

RECURSIVE Greedy(_, _, _, _, _)
Greedy(ids, order, k, load, g2f) ==
  IF k > Len(order) THEN g2f
  ELSE LET f == Lightest(load)
       IN Greedy(ids, order, k + 1,
                 [load EXCEPT ![f] = @ + GroupCount(ids, order[k])],
                 [g2f EXCEPT ![order[k]] = f])

GroupKFoldAssign(ids, n_splits, order) ==
  Greedy(ids, order, 1, [f \in 0..(n_splits - 1) |-> 0], [r \in Groups(ids) |-> 0])

\* A split that ignores the groups (KFold): row i goes to fold (i-1) mod n
TestIdxByRow(ids, g2f, f) ==
  SortedSeq({i \in DOMAIN ids : (i - 1) % num_folds = f})

\* The validation rows of fold f: the rows of the groups assigned to f
TestIdx(ids, g2f, f) == SortedSeq({i \in DOMAIN ids : g2f[ids[i]] = f})

\* The training rows of fold f: all the other rows
TrainIdx(ids, g2f, f) ==
  SortedSeq(DOMAIN ids \ Range(TestIdx(ids, g2f, f)))

-----------------------------------------------------------------------------
(* train_and_evaluate *)

\* race_ids.iloc[idx].value_counts().sort_index().values
GroupSizes(ids, idx) ==
  LET sel == Take(ids, idx)
      keys == SortedSeq(Range(sel))
  IN [k \in 1..Len(keys) |-> Cardinality({p \in DOMAIN sel : sel[p] = keys[k]})]

\* Writes the scores at the first len(val_idx) positions instead of val_idx
WriteFront(oof, val_idx, val_scores) ==
  [i \in DOMAIN oof |-> IF i <= Len(val_idx) THEN Num(val_scores[i]) ELSE oof[i]]

\* oof_scores.iloc[val_idx] = val_scores
WriteOof(oof, val_idx, val_scores) ==
  [i \in DOMAIN oof |->
     IF i \in Range(val_idx) THEN Num(val_scores[PosIn(val_idx, i)]) ELSE oof[i]]

\* The raw scores model.predict may return: a small and a huge one, so that
\* the scores of a race may be equal or differ by more than np.exp can hold
Scores == {0, 1000}
\* The values of num_folds
FoldChoices == {2, 3}

FeatIdle == df0 = <<>> /\ df = <<>> /\ fpc = "idle"
EdgeIdle == preds = <<>> /\ market = <<>> /\ labels = <<>> /\ edf = <<>> /\ epc = "idle"
DriverIdle ==
  nb = 0 /\ executed = <<>> /\ exit_code = -1 /\ completed = FALSE /\ dpc = "idle"

\* The input tables: up to MaxRows rows in any order, interleaved or not.
\* Only the order and the equality of Race_IDs are ever used, so the
\* Race_IDs of a table are taken to be 1..m for some m <= MaxRaces.
TrainInputs ==
  {ids \in UNION {[1..n -> 1..MaxRaces] : n \in 1..MaxRows} :
     Range(ids) = 1..Cardinality(Range(ids))}

TrainInit ==
  /\ race_ids \in TrainInputs
  /\ num_folds \in FoldChoices
  /\ group_to_fold = <<>>
  /\ fold = 0
  /\ oof_scores = [i \in DOMAIN race_ids |-> NaN]
  /\ models = <<>>
  /\ probs = <<>>
  /\ tpc = "split"
  /\ FeatIdle /\ EdgeIdle /\ DriverIdle

\* The first step of gkf.split: ValueError when there are fewer groups than
\* folds, else the assignment of the groups to the folds.
Split ==
  /\ tpc = "split"
  /\ IF num_folds > Cardinality(Groups(race_ids))
     THEN /\ tpc' = "raised"
          /\ UNCHANGED group_to_fold
     ELSE /\ \E order \in VisitOrders(race_ids) :
               group_to_fold' = GroupKFoldAssign(race_ids, num_folds, order)
          /\ tpc' = "loop"
  /\ UNCHANGED <<race_ids, num_folds, fold, oof_scores, models, probs, featVars, edgeVars, driverVars>>

\* One iteration of the fold loop: split, fit, predict, write the scores
Fold ==
  /\ tpc = "loop"
  /\ fold < num_folds
  /\ LET train_idx == TrainIdx(race_ids, group_to_fold, fold)
         val_idx == TestIdx(race_ids, group_to_fold, fold)
         train_group_sizes == GroupSizes(race_ids, train_idx)
         val_group_sizes == GroupSizes(race_ids, val_idx)
     IN \E val_scores \in [1..Len(val_idx) -> Scores] :
          /\ oof_scores' = WriteOof(oof_scores, val_idx, val_scores)
          /\ models' = Append(models,
                 [train_idx |-> train_idx, group |-> train_group_sizes,
                  val_idx |-> val_idx, eval_group |-> val_group_sizes,
                  val_scores |-> val_scores])
  /\ fold' = fold + 1
  /\ UNCHANGED <<race_ids, num_folds, group_to_fold, probs, tpc, featVars, edgeVars, driverVars>>

\* After the loop: full_df and its softmax within each race
Combine ==
  /\ tpc = "loop"
  /\ fold = num_folds
  /\ probs' = GroupSoftmax(race_ids, oof_scores)
  /\ tpc' = "done"
  /\ UNCHANGED <<race_ids, num_folds, group_to_fold, fold, oof_scores, models, featVars, edgeVars, driverVars>>

TrainNext == Split \/ Fold \/ Combine

SpecTrain == TrainInit /\ [][TrainNext]_vars

-----------------------------------------------------------------------------
(* Properties of train_and_evaluate *)

RacesAt(idx) == Range(Take(race_ids, idx))
LoopFinished == tpc \in {"loop", "done"} /\ fold = num_folds

\* C1: in every fold, the Race_IDs of the training rows and the Race_IDs of
\* the validation rows are disjoint: no race is split across the two sides.
C1_GroupsNotSplit ==
  \A k \in DOMAIN models :
    RacesAt(models[k].train_idx) \cap RacesAt(models[k].val_idx) = {}

\* A fold with training rows whose validation side holds a race of two rows
C1_Witness ==
  \E k \in DOMAIN models :
    /\ models[k].train_idx # <<>>
    /\ \E a, b \in Range(models[k].val_idx) : a # b /\ race_ids[a] = race_ids[b]

\* C2: once the fold loop has finished every row holds exactly one
\* out-of-fold score, at its own position, written by the one fold whose
\* training rows hold no row of the row's race.
C2_OutOfFold ==
  LoopFinished =>
    \A i \in DOMAIN race_ids :
      \E k \in DOMAIN models :
        /\ i \in Range(models[k].val_idx)
        /\ oof_scores[i] = Num(models[k].val_scores[PosIn(models[k].val_idx, i)])
        /\ race_ids[i] \notin RacesAt(models[k].train_idx)
        /\ \A j \in DOMAIN models \ {k} :
             /\ i \notin Range(models[j].val_idx)
             /\ race_ids[i] \in RacesAt(models[j].train_idx)

\* The loop has finished over three folds and two rows of different folds
\* hold different scores
C2_Witness ==
  /\ LoopFinished
  /\ num_folds = 3
  /\ \E a, b \in DOMAIN race_ids :
       /\ a < b
       /\ group_to_fold[race_ids[a]] > group_to_fold[race_ids[b]]
       /\ oof_scores[a] # oof_scores[b]

RaceRows(r) == {i \in DOMAIN race_ids : race_ids[i] = r}
RaceProbSum(r) == SumSeq([k \in 1..Len(RowsOf(race_ids, r)) |-> probs[RowsOf(race_ids, r)[k]].v])

\* C3: the returned probabilities of every race sum to 1 (to within one unit
\* of the fixed-point resolution per row), whatever the raw scores; when the
\* raw scores of a race are all equal its probabilities are 1 / group size.
C3_SoftmaxSumsToOne ==
  tpc = "done" =>
    \A r \in Groups(race_ids) :
      /\ \A i \in RaceRows(r) : IsNum(probs[i])
      /\ RaceProbSum(r) <= Scale
      /\ Scale - RaceProbSum(r) <= Cardinality(RaceRows(r))
      /\ (\A i, j \in RaceRows(r) : oof_scores[i] = oof_scores[j])
           => \A i \in RaceRows(r) : probs[i] = Num(Scale \div Cardinality(RaceRows(r)))

\* A returned table with a race of two rows scored 1000 and 0 and another
\* race of two rows with equal scores
C3_Witness ==
  /\ tpc = "done"
  /\ \E a, c \in DOMAIN race_ids :
       /\ race_ids[a] = race_ids[c]
       /\ oof_scores[a] = Num(1000) /\ oof_scores[c] = Num(0)
       /\ \E r \in Groups(race_ids) \ {race_ids[a]} :
            /\ Cardinality(RaceRows(r)) >= 2
            /\ \A i, j \in RaceRows(r) : oof_scores[i] = oof_scores[j]

\* The sizes, read as consecutive block lengths over the rows idx, cut the
\* rows into blocks each holding all and only the rows of one race.
BlockStart(sizes, k) == SumSeq(SubSeq(sizes, 1, k - 1)) + 1
BlocksMatch(idx, sizes) ==
  /\ SumSeq(sizes) = Len(idx)
  /\ \A k \in DOMAIN sizes :
       LET block == {idx[p] : p \in BlockStart(sizes, k)..(BlockStart(sizes, k) + sizes[k] - 1)}
       IN \E r \in Groups(race_ids) :
            block = {i \in Range(idx) : race_ids[i] = r}

\* C4: in every fold the group sizes passed as group and eval_group match
\* the blocks of the training rows and of the validation rows, for any row
\* order of the input table.
C4_GroupSizesMatchBlocks ==
  \A k \in DOMAIN models :
    /\ BlocksMatch(models[k].train_idx, models[k].group)
    /\ BlocksMatch(models[k].val_idx, models[k].eval_group)

-----------------------------------------------------------------------------
(* engineer_features *)

TrainIdle ==
  /\ race_ids = <<>> /\ num_folds = 0 /\ group_to_fold = <<>> /\ fold = 0
  /\ oof_scores = <<>> /\ models = <<>> /\ probs = <<>> /\ tpc = "idle"

\* The Distance strings of the sample tables
DistSamples ==
  << <<"2", "4", "0", "0", "m">>,
     <<"g", "a", "r", "b", "a", "g", "e">>,
     <<"1", "m", "4", "f">>,
     <<"1", "2", "0", "0">>,
     <<"3", "2", "0", "0", ".", "5", "m">> >>

\* A chronologically sorted Race Entry table of n rows: races of two horses
\* with one winner each (w says which), one jockey but for row k, one or two
\* trainers (tr), the Distance samples from offset d on.
RaceTable(n, w, k, tr, d) ==
  [c \in {"Race_ID", "Horse", "HorseID", "Track", "JockeyID", "TrainerID", "Winner",
          "Speed_PreviousRun", "Speed_2ndPreviousRun", "JockeyRating", "TrainerRating",
          "daysSinceLastRun", "PastWins", "Market_Odds", "MarketOdds_PreviousRun",
          "MarketOdds_2ndPreviousRun", "Distance"} |->
     [i \in 1..n |->
        CASE c = "Race_ID" -> Num((i + 1) \div 2)
          [] c = "Horse" -> Num(i)
          [] c = "HorseID" -> Num(1 + (i % 3))
          [] c = "Track" -> Num(1 + (i % 2))
          [] c = "JockeyID" -> Num(IF i = k THEN 2 ELSE 1)
          [] c = "TrainerID" -> Num(IF tr = 1 THEN 1 ELSE 1 + (i % 2))
          [] c = "Winner" -> Num(IF (i - 1) % 2 = w[(i + 1) \div 2] THEN 1 ELSE 0)
          [] c = "Speed_PreviousRun" -> Num(50 + ((i * 7) % 5))
          [] c = "Speed_2ndPreviousRun" -> Num(48 + ((i * 3) % 7))
          [] c = "JockeyRating" -> Num(1 + (i % 4))
          [] c = "TrainerRating" -> Num(1 + (i % 3))
          [] c = "daysSinceLastRun" -> Num((i * 13) % 100)
          [] c = "PastWins" -> Num(i % 3)
          [] c = "Market_Odds" -> Num(2 + (i % 5))
          [] c = "MarketOdds_PreviousRun" -> Num(3 + (i % 4))
          [] c = "MarketOdds_2ndPreviousRun" -> Num(2 + (i % 6))
          [] c = "Distance" -> Str(DistSamples[1 + ((i + d) % Len(DistSamples))])]]

\* The table may also hold a level_1 column: the row's own index label, or 0
WithLevel1(t, mode) ==
  CASE mode = "absent" -> t
    [] mode = "index" -> SetCol(t, "level_1", [i \in Rows(t) |-> Num(i - 1)])
    [] mode = "zero" -> SetCol(t, "level_1", [i \in Rows(t) |-> Num(0)])

FeatInit ==
  /\ \E w \in [1..((NFeatRows + 1) \div 2) -> {0, 1}], k \in 0..NFeatRows,
        tr \in {1, 2}, d \in {0, 1}, mode \in {"absent", "index", "zero"} :
       df0 = WithLevel1(RaceTable(NFeatRows, w, k, tr, d), mode)
  /\ df = df0
  /\ fpc = "race_relative"
  /\ TrainIdle /\ EdgeIdle /\ DriverIdle

\* The steps of engineer_features, one per transform of the chain.  fpc names
\* the transform that runs next.  The transforms that assign columns change
\* the table they are given in place.
AddRaceRelativeFeatures ==
  /\ fpc = "race_relative"
  /\ df' = add_race_relative_features(df)
  /\ fpc' = "interaction"
  /\ UNCHANGED <<df0, trainVars, edgeVars, driverVars>>

AddInteractionFeatures ==
  /\ fpc = "interaction"
  /\ df' = add_interaction_features(df)
  /\ fpc' = "form"
  /\ UNCHANGED <<df0, trainVars, edgeVars, driverVars>>

AddFormFeatures ==
  /\ fpc = "form"
  /\ df' = add_form_features(df)
  /\ fpc' = "market"
  /\ UNCHANGED <<df0, trainVars, edgeVars, driverVars>>

AddMarketFeatures ==
  /\ fpc = "market"
  /\ df' = add_market_features(df)
  /\ fpc' = "form_aggregates"
  /\ UNCHANGED <<df0, trainVars, edgeVars, driverVars>>

AddFormAggregates ==
  /\ fpc = "form_aggregates"
  /\ df' = add_form_aggregates(df)
  /\ fpc' = "race_context"
  /\ UNCHANGED <<df0, trainVars, edgeVars, driverVars>>

AddRaceContextFeatures ==
  /\ fpc = "race_context"
  /\ df' = add_race_context_features(df)
  /\ fpc' = "advanced"
  /\ UNCHANGED <<df0, trainVars, edgeVars, driverVars>>

AddAdvancedInteractions ==
  /\ fpc = "advanced"
  /\ df' = add_advanced_interactions(df)
  /\ fpc' = "rolling"
  /\ UNCHANGED <<df0, trainVars, edgeVars, driverVars>>

AddRollingWinRates ==
  /\ fpc = "rolling"
  /\ IF RollingRaises(df)
     THEN /\ fpc' = "raised"
          /\ UNCHANGED df
     ELSE /\ df' = add_rolling_win_rates(df)
          /\ fpc' = "track_distance"
  /\ UNCHANGED <<df0, trainVars, edgeVars, driverVars>>

AddTrackDistanceFeatures ==
  /\ fpc = "track_distance"
  /\ df' = add_track_distance_features(df)
  /\ fpc' = "returned"
  /\ UNCHANGED <<df0, trainVars, edgeVars, driverVars>>

FeatNext ==
  \/ AddRaceRelativeFeatures \/ AddInteractionFeatures \/ AddFormFeatures
  \/ AddMarketFeatures \/ AddFormAggregates \/ AddRaceContextFeatures
  \/ AddAdvancedInteractions \/ AddRollingWinRates \/ AddTrackDistanceFeatures

SpecFeat == FeatInit /\ [][FeatNext]_vars

\* add_track_distance_features on a table of one row holding a Distance
DistAlphabet == {"0", "2", "4", ".", "m"}
DistInputs ==
  Range(DistSamples)
    \cup UNION {[1..n -> DistAlphabet] : n \in 0..MaxDistLen}
    \cup {<<"2", "4", "0", "0">>, <<"2", "4", "0", "1">>, <<"2", "0", "0", "0", "m">>,
          <<"2", "0", "0", "0", ".", "5">>, <<"3", "0", "0", "0">>, <<"3", "0", "0", "1">>,
          <<"1", "6", "0", "0", "m">>, <<"1", "6", "0", "1">>, <<"1", "2", "0", "1">>,
          <<"m", "2", "4", "0", "0", ".", "2", "5", "x">>}

DistInit ==
  /\ \E s \in DistInputs : df0 = [c \in {"Distance"} |-> <<Str(s)>>]
  /\ df = df0
  /\ fpc = "track_distance"
  /\ TrainIdle /\ EdgeIdle /\ DriverIdle

SpecDist == DistInit /\ [][AddTrackDistanceFeatures]_vars

-----------------------------------------------------------------------------
(* Properties of the feature transforms *)

CellEq(a, b) == a.kind = b.kind /\ a.v = b.v
SameColumn(x, y) == Len(x) = Len(y) /\ \A i \in DOMAIN x : CellEq(x[i], y[i])

\* The table gives every row its own index label as level_1, so that the
\* merge of add_rolling_win_rates hands every row its own rolling value
OwnLabels(t) ==
  "level_1" \in Columns(t) /\ \A i \in Rows(t) : t["level_1"][i] = Num(i - 1)

\* The earlier rows of the entity of row i, the most recent Window of them
PriorRows(key, i) ==
  LET before == SortedSeq({j \in GroupOf(key, i) : j < i})
      n == Len(before)
  IN SubSeq(before, IF n > Window THEN n - Window + 1 ELSE 1, n)

PriorMean(key, winner, i) ==
  LET pr == PriorRows(key, i)
  IN Num((SumSeq([k \in 1..Len(pr) |-> winner[pr[k]].v]) * Scale) \div Len(pr))

WinRateCols == {"JockeyID", "TrainerID"}

\* C5: the rolling win rate of a row is the mean of Winner over earlier rows
\* of the same jockey or trainer only (at most the 50 most recent); the
\* row's own Winner is not in the window.
C5_WindowExcludesCurrentRow ==
  \A col \in WinRateCols :
    (OwnLabels(df0) /\ (col \o "_WinRate50") \in Columns(df)) =>
      \A i \in Rows(df) :
        IsNum(df[col \o "_WinRate50"][i]) =>
          /\ PriorRows(df[col], i) # <<>>
          /\ df[col \o "_WinRate50"][i] = PriorMean(df[col], df["Winner"], i)

\* C6: a row with fewer than 10 prior rows of the same jockey or trainer has
\* a missing rolling win rate.
C6_MissingBelowTenPriorRows ==
  \A col \in WinRateCols :
    (OwnLabels(df0) /\ (col \o "_WinRate50") \in Columns(df)) =>
      \A i \in Rows(df) :
        Len(PriorRows(df[col], i)) < 10 => df[col \o "_WinRate50"][i] = NaN

\* C8: after each transform of engineer_features the table holds the rows of
\* the input in the input's order, and every column of the input holds the
\* values it had in the input; only columns were added.
C8_OnlyAddsColumns ==
  fpc # "raised" =>
    \A c \in Columns(df0) : c \in Columns(df) /\ SameColumn(df[c], df0[c])

DistanceIn == df0["Distance"][1].v
HasDigit(s) == \E i \in DOMAIN s : s[i] \in Digits
Str2400m == <<"2", "4", "0", "0", "m">>

\* The six ranges, each threshold in the range below it
BucketOf(v) ==
  IF v <= 0 THEN NaN
  ELSE IF v <= 1200 * Milli THEN Cat("Sprint")
  ELSE IF v <= 1600 * Milli THEN Cat("Mile")
  ELSE IF v <= 2000 * Milli THEN Cat("Intermediate")
  ELSE IF v <= 2400 * Milli THEN Cat("Classic")
  ELSE IF v <= 3000 * Milli THEN Cat("Long")
  ELSE Cat("Marathon")

\* C7 as stated: "2400m" becomes 2400 and "Long"; a Distance without a
\* numeric token becomes missing with a missing bucket; a parsed distance is
\* placed in one of the six named ranges.
C7_Bucket2400IsLong ==
  fpc = "returned" =>
    /\ DistanceIn = Str2400m =>
         /\ df["Distance"][1] = Num(2400 * Milli)
         /\ df["Distance_Bucket"][1] = Cat("Long")
    /\ ~HasDigit(DistanceIn) =>
         df["Distance"][1] = NaN /\ df["Distance_Bucket"][1] = NaN
    /\ IsNum(df["Distance"][1]) =>
         df["Distance_Bucket"][1] \in {Cat(DistanceLabels[k]) : k \in DOMAIN DistanceLabels}

\* C7 amended: "2400m" becomes 2400 and "Classic"; a Distance without a
\* numeric token becomes missing with a missing bucket, and the transform
\* returns; a parsed distance above 0 is placed in the range that holds it,
\* each threshold belonging to the range below it, and a parsed distance of
\* 0 has a missing bucket.
C7_Bucket2400IsClassic ==
  /\ fpc \in {"track_distance", "returned"}
  /\ fpc = "returned" =>
       /\ DistanceIn = Str2400m =>
            /\ df["Distance"][1] = Num(2400 * Milli)
            /\ df["Distance_Bucket"][1] = Cat("Classic")
       /\ ~HasDigit(DistanceIn) =>
            df["Distance"][1] = NaN /\ df["Distance_Bucket"][1] = NaN
       /\ IsNum(df["Distance"][1]) =>
            df["Distance_Bucket"][1] = BucketOf(df["Distance"][1].v)

\* add_track_distance_features has returned for the Distance "2400m"
C7_Witness == fpc = "returned" /\ DistanceIn = Str2400m

-----------------------------------------------------------------------------
(* create_edge_backtest_file *)

\* left.merge(right, on=["Race_ID", "Horse"], how="inner"): a left row
\* without a match is dropped
MergeInner(left, right, col) ==
  LET RowsFor(l) ==
        LET m == SortedSeq({j \in DOMAIN right : right[j].Race_ID = l.Race_ID
                                                    /\ right[j].Horse = l.Horse})
        IN [k \in 1..Len(m) |-> l @@ (col :> right[m[k]][col])]
      F[i \in 0..Len(left)] == IF i = 0 THEN <<>> ELSE F[i - 1] \o RowsFor(left[i])
  IN F[Len(left)]

\* left.merge(right, on=["Race_ID", "Horse"], how="left"), right holding the
\* keys and the column col: the left rows in order, each once per matching
\* right row (in the right's order), or once with a missing col.
MergeLeft(left, right, col) ==
  LET RowsFor(l) ==
        LET m == SortedSeq({j \in DOMAIN right : right[j].Race_ID = l.Race_ID
                                                    /\ right[j].Horse = l.Horse})
        IN IF m = <<>> THEN <<l @@ (col :> NaN)>>
           ELSE [k \in 1..Len(m) |-> l @@ (col :> right[m[k]][col])]
      F[i \in 0..Len(left)] == IF i = 0 THEN <<>> ELSE F[i - 1] \o RowsFor(left[i])
  IN F[Len(left)]

\* 1 / df["Market_Odds"], in units of 1/Scale
MarketProb(odds) ==
  IF ~IsNum(odds) THEN NaN
  ELSE IF odds.v = 0 THEN Inf(1)
  ELSE Num(Scale \div odds.v)

\* df["Predicted_Probability"] - df["Market_Prob"]
EdgeScore(p, mp) ==
  IF mp.kind = "nan" \/ p.kind = "nan" THEN NaN
  ELSE IF mp.kind = "inf" THEN Inf(-1)
  ELSE Num(p.v - mp.v)

\* (df["Position"] == 1).astype(int): a missing Position compares unequal
TrueLabel(pos) == Num(IF IsNum(pos) /\ pos.v = 1 THEN 1 ELSE 0)

\* The keys of the sample files, and the values each file holds for a key
EdgeKeys == {<<1, "A">>, <<1, "B">>, <<2, "A">>}
PredRow(k) ==
  [Race_ID |-> k[1], Horse |-> k[2],
   Predicted_Probability |-> Num(IF k[2] = "B" THEN 7000 ELSE IF k[1] = 1 THEN 3000 ELSE Scale)]
MarketRow(k) ==
  [Race_ID |-> k[1], Horse |-> k[2],
   Market_Odds |-> Num(IF k[2] = "B" THEN 2 ELSE IF k[1] = 1 THEN 4 ELSE 0)]
LabelRow(k) ==
  [Race_ID |-> k[1], Horse |-> k[2], Position |-> Num(IF k[2] = "B" THEN 2 ELSE 1)]

KeySeqs(lo, hi) == UNION {[1..n -> EdgeKeys] : n \in lo..hi}

EdgeInit ==
  /\ \E ks \in KeySeqs(1, MaxPreds) : preds = [i \in DOMAIN ks |-> PredRow(ks[i])]
  /\ \E ks \in KeySeqs(0, MaxMarket) : market = [i \in DOMAIN ks |-> MarketRow(ks[i])]
  /\ \E ks \in KeySeqs(0, MaxLabels) : labels = [i \in DOMAIN ks |-> LabelRow(ks[i])]
  /\ edf = <<>>
  /\ epc = "merge_market"
  /\ TrainIdle /\ FeatIdle /\ DriverIdle

MergeMarket ==
  /\ epc = "merge_market"
  /\ edf' = MergeLeft(preds, market, "Market_Odds")
  /\ epc' = "merge_labels"
  /\ UNCHANGED <<preds, market, labels, trainVars, featVars, driverVars>>

MergeLabels ==
  /\ epc = "merge_labels"
  /\ edf' = MergeLeft(edf, labels, "Position")
  /\ epc' = "compute"
  /\ UNCHANGED <<preds, market, labels, trainVars, featVars, driverVars>>

\* The derived columns, the drop of Position and the save
ComputeEdge ==
  /\ epc = "compute"
  /\ edf' = [r \in DOMAIN edf |->
               LET row == edf[r]
                   mp == MarketProb(row.Market_Odds)
               IN [Race_ID |-> row.Race_ID, Horse |-> row.Horse,
                   Predicted_Probability |-> row.Predicted_Probability,
                   Market_Odds |-> row.Market_Odds,
                   Market_Prob |-> mp,
                   Edge_Score |-> EdgeScore(row.Predicted_Probability, mp),
                   True_Label |-> TrueLabel(row.Position)]]
  /\ epc' = "saved"
  /\ UNCHANGED <<preds, market, labels, trainVars, featVars, driverVars>>

EdgeNext == MergeMarket \/ MergeLabels \/ ComputeEdge

SpecEdge == EdgeInit /\ [][EdgeNext]_vars

HasKey(rows, k) == \E j \in DOMAIN rows : rows[j].Race_ID = k.Race_ID /\ rows[j].Horse = k.Horse
RowsWithKey(rows, k) == {j \in DOMAIN rows : rows[j].Race_ID = k.Race_ID /\ rows[j].Horse = k.Horse}

\* C9: every prediction record is in the backtest table; a prediction record
\* without a match in the market odds or in the labels is kept, and the
\* unmatched market columns (Market_Odds, hence Market_Prob and Edge_Score)
\* are missing in its rows.
C9_UnmatchedKept ==
  /\ epc = "compute" =>
       \A i \in DOMAIN preds :
         ~HasKey(labels, preds[i]) =>
           /\ RowsWithKey(edf, preds[i]) # {}
           /\ \A r \in RowsWithKey(edf, preds[i]) : edf[r].Position = NaN
  /\ epc = "saved" =>
    \A i \in DOMAIN preds :
      /\ \E r \in DOMAIN edf :
           /\ edf[r].Race_ID = preds[i].Race_ID /\ edf[r].Horse = preds[i].Horse
           /\ edf[r].Predicted_Probability = preds[i].Predicted_Probability
      /\ Cardinality(RowsWithKey(edf, preds[i])) >= Cardinality(RowsWithKey(preds, preds[i]))
      /\ ~HasKey(market, preds[i]) =>
           \A r \in RowsWithKey(edf, preds[i]) :
             /\ edf[r].Market_Odds = NaN
             /\ edf[r].Market_Prob = NaN
             /\ edf[r].Edge_Score = NaN

\* A saved table from predictions of which one has no market row and no
\* label row and another has both
C9_Witness ==
  /\ epc = "saved"
  /\ \E i, j \in DOMAIN preds :
       /\ ~HasKey(market, preds[i]) /\ ~HasKey(labels, preds[i])
       /\ HasKey(market, preds[j]) /\ HasKey(labels, preds[j])

-----------------------------------------------------------------------------
(* The driver script *)

\* The list as Python reads it: the last two literals have no comma between
\* them and are one string
notebooks ==
  <<"01_eda.ipynb", "02_features.ipynb", "03_models.ipynb", "04_hyperparam_tuning.ipynb",
    "05_ensemble_stack.ipynb", "06_metrics_evaluation.ipynb", "07_visuals.ipynb",
    "08_edge_analysis.ipynb", "09_portfolio_simulator.ipynb10_market_edge.ipynb">>

ReturnCodes == 0..MaxReturnCode

DriverInit ==
  /\ nb = 1
  /\ executed = <<>>
  /\ exit_code = -1
  /\ completed = FALSE
  /\ dpc = "running"
  /\ TrainIdle /\ FeatIdle /\ EdgeIdle

\* run_notebook(notebooks[nb]): the subprocess returns some code; a non-zero
\* code ends the script with that code
RunNotebook ==
  /\ dpc = "running"
  /\ nb <= Len(notebooks)
  /\ executed' = Append(executed, notebooks[nb])
  /\ \E returncode \in ReturnCodes :
       IF returncode # 0
       THEN exit_code' = returncode /\ dpc' = "exited" /\ UNCHANGED nb
       ELSE nb' = nb + 1 /\ UNCHANGED <<exit_code, dpc>>
  /\ UNCHANGED <<completed, trainVars, featVars, edgeVars>>

\* After the loop: the completion message
Complete ==
  /\ dpc = "running"
  /\ nb > Len(notebooks)
  /\ completed' = TRUE
  /\ exit_code' = 0
  /\ dpc' = "done"
  /\ UNCHANGED <<nb, executed, trainVars, featVars, edgeVars>>

DriverNext == RunNotebook \/ Complete

SpecDriver == DriverInit /\ [][DriverNext]_vars

TenNotebooks ==
  <<"01_eda.ipynb", "02_features.ipynb", "03_models.ipynb", "04_hyperparam_tuning.ipynb",
    "05_ensemble_stack.ipynb", "06_metrics_evaluation.ipynb", "07_visuals.ipynb",
    "08_edge_analysis.ipynb", "09_portfolio_simulator.ipynb", "10_market_edge.ipynb">>

\* C10: the notebooks executed are a prefix of the ten-notebook list, each
\* its own step in that order; the script exits with the code of the first
\* notebook that fails, and prints the completion message only after all
\* ten have returned 0.
C10_RunsTheTenNotebooksInOrder ==
  /\ Len(executed) <= Len(TenNotebooks)
  /\ \A i \in DOMAIN executed : executed[i] = TenNotebooks[i]
  /\ completed => Len(executed) = Len(TenNotebooks)
  /\ dpc = "exited" => exit_code # 0

====
